---- MODULE Spec2Model ----
(***************************************************************************)
(* Model of grin/src/sync.rs: the chain synchronisation driver (run_sync), *)
(* its decision helper needs_syncing, the three phase procedures           *)
(* header_sync / body_sync / fast_sync and the locator-height helper       *)
(* get_locator_heights.                                                    *)
(*                                                                         *)
(* Two families of specifications live in this module:                     *)
(*   SpecLoc   the loop of get_locator_heights, run on every height of a   *)
(*             HeightBits-wide unsigned integer;                           *)
(*   Spec ...  the driver thread of run_sync, one action per step of the   *)
(*             thread, with the chain store and the peer registry read as  *)
(*             nondeterministic inputs of each tick.                       *)
(***************************************************************************)
EXTENDS Integers, Sequences, FiniteSets, TLC

VARIABLES
    \* ---- get_locator_heights (sync.rs:348-358)
    lh_pc,        \* "idle" | "loop" | "returned" | "panicked"
    lh_height,    \* the argument `height`
    lh_current,   \* local `current`
    lh_heights,   \* local `heights`
    \* ---- run_sync (sync.rs:30-122): arguments and shared flags
    currently_syncing,  \* Arc<AtomicBool>, written by the driver at line 113
    awaiting_peers,     \* Arc<AtomicBool>, lines 50 and 52
    stop,               \* Arc<AtomicBool>, set by the rest of the node
    skip_sync_wait,     \* argument
    archive_mode,       \* argument
    horizon,            \* global::cut_through_horizon(), a protocol constant
    \* ---- run_sync: the thread's locals and position
    pc,                 \* "start" | "waiting" | "tick" | "sleeping" |
                        \* "stopped" | "panicked"
    highest_height,     \* line 46
    header_age,         \* current time minus prev_header_sync, in seconds
    body_age,           \* current time minus prev_body_sync
    fast_age,           \* current time minus prev_fast_sync
    \* ---- what the chain store and the peer registry answer during a tick
    env,
    \* ---- what the last executed tick did (lines 64-113)
    tick,
    \* ---- history: seconds since header_sync, body_sync and fast_sync were
    \* last called (counted like the ages; past the cadence from the start,
    \* when no call has been made), and the number of ticks begun with the
    \* stop flag already set; whether the last call of header_sync sent no
    \* request because a non-blocking read of the peer failed
    since_header,
    since_body,
    since_fast,
    ticks_after_stop,
    header_read_failed

lvars == <<lh_pc, lh_height, lh_current, lh_heights>>

dvars == <<currently_syncing, awaiting_peers, stop, skip_sync_wait,
           archive_mode, horizon, pc, highest_height, header_age, body_age,
           fast_age, env, tick, since_header, since_body, since_fast,
           ticks_after_stop, header_read_failed>>

vars == <<lh_pc, lh_height, lh_current, lh_heights, currently_syncing,
          awaiting_peers, stop, skip_sync_wait, archive_mode, horizon, pc,
          highest_height, header_age, body_age, fast_age, env, tick,
          since_header, since_body, since_fast, ticks_after_stop,
          header_read_failed>>

----------------------------------------------------------------------------
(* Bounds of the model.                                                    *)

\* Width in bits of the unsigned height type (u64 in the code, scaled down).
HeightBits == 14

\* Longest `heights` vector the loop of get_locator_heights may build in the
\* model; the loop is cut there when it does not terminate by itself.
MaxLocLen == 18

\* Heights of the chains and of the peers run from 0 to MaxChain.
MaxChain == 2

\* The cut-through horizon is drawn from 0 .. MaxHorizon.
MaxHorizon == 1

\* Longest chain.difficulty_iter() given to needs_syncing.
MaxIterLen == 6

\* Largest total difficulty of a peer and of the local chain where the two
\* are drawn independently of the chain's height.
MaxPeerDifficulty == 12

MaxLocalDifficulty == 1

\* Height of the longest header chain given to body_sync.
MaxBodyChain == 12

\* The horizons given to fast_sync go up to HorizonMargin + MaxFastDepth.
MaxFastDepth == 2

----------------------------------------------------------------------------
(* Unsigned arithmetic of the height type.                                 *)

HeightModulus == 2 ^ HeightBits

MaxHeight == HeightModulus - 1

\* Variant of PowOutcomes that raises 2 to the index of the entry pushed
\* last, n - 1.
PowOutcomesOfIndex(n) ==
    IF 2 ^ (n - 1) < HeightModulus
    THEN {[overflow |-> FALSE, value |-> 2 ^ (n - 1)]}
    ELSE {[overflow |-> TRUE, value |-> 0],
          [overflow |-> FALSE, value |-> (2 ^ (n - 1)) % HeightModulus]}

\* 2u64.pow(n) as the two builds compute it: a build with overflow checks
\* panics when the power leaves the type ("overflow"), a build without them
\* wraps modulo 2^HeightBits.
PowOutcomes(n) ==
    IF 2 ^ n < HeightModulus
    THEN {[overflow |-> FALSE, value |-> 2 ^ n]}
    ELSE {[overflow |-> TRUE, value |-> 0],
          [overflow |-> FALSE, value |-> (2 ^ n) % HeightModulus]}

----------------------------------------------------------------------------
(* Program constants of run_sync and fast_sync.                            *)

\* thread::sleep(Duration::from_secs(30)), the initial wait for peers.
InitialWaitSecs == 30

\* time::Duration::seconds(10), the header sync cadence.
HeaderSyncSecs == 10

\* time::Duration::seconds(5), the body sync cadence.
BodySyncSecs == 5

\* time::Duration::seconds(5 * 60), the fast sync cadence.
FastSyncSecs == 300

\* horizon.saturating_sub(20) in fast_sync.
HorizonMargin == 20

\* .take(5) on the difficulty iterator in needs_syncing.
ThresholdBlocks == 5

\* cmp::min(peers.more_work_peers().len(), 10) in body_sync.
MaxPeerCount == 10

\* let block_count = peer_count * 10 in body_sync.
BlocksPerPeer == 10

----------------------------------------------------------------------------
(* Values read from the chain store and the peer registry.                 *)
(*                                                                         *)
(* A tip is [height, total_difficulty].  The header chain is the linear    *)
(* chain of heights 0 .. header_head.height, a header's hash is identified *)
(* with its height, and the headers of height <= head.height are the ones  *)
(* on the current (validated) chain.  chain.total_difficulty() is the      *)
(* total difficulty of head.                                               *)

Tip(h, d) == [height |-> h, total_difficulty |-> d]

\* peers.most_work_peer() and the outcome of peer.try_read() in needs_syncing
NoPeer == [present |-> FALSE, readable |-> FALSE, height |-> 0,
           total_difficulty |-> 0]

PeerInfo(h, d, r) == [present |-> TRUE, readable |-> r, height |-> h,
                      total_difficulty |-> d]

\* One entry of chain.difficulty_iter(): Ok((_, difficulty)) or Err(_).
DiffOk(d) == [ok |-> TRUE, difficulty |-> d]

DiffErr == [ok |-> FALSE, difficulty |-> 0]

Min(a, b) == IF a < b THEN a ELSE b

\* u64::saturating_sub
saturating_sub(a, b) == IF a > b THEN a - b ELSE 0

RECURSIVE SumSeq(_)
\* .fold(Difficulty::zero(), |sum, val| sum + val)
SumSeq(s) == IF s = <<>> THEN 0 ELSE Head(s) + SumSeq(Tail(s))

\* .filter_map(|x| x.map(|(_, x)| x).ok())
OkDifficulties(iter) ==
    LET oks == SelectSeq(iter, LAMBDA x : x.ok)
    IN  [i \in 1 .. Len(oks) |-> oks[i].difficulty]

\* .take(n)
Take(s, n) == SubSeq(s, 1, Min(n, Len(s)))

\* sync.rs:302-306: sum the last 5 difficulties to give us the threshold
Threshold(iter) == SumSeq(Take(OkDifficulties(iter), ThresholdBlocks))

----------------------------------------------------------------------------
(* needs_syncing, sync.rs:257-322.                                         *)
(* The result is (syncing, height) plus the number of chain.reset_head()   *)
(* calls the invocation made.                                              *)

NsResult(s, h, r) == [syncing |-> s, height |-> h, resets |-> r]

\* Variant of CaughtUp with < for <=.
CaughtUpStrict(peer, local_diff) == peer.total_difficulty < local_diff

\* Variant of CaughtUp that tolerates a peer one unit of difficulty ahead.
CaughtUpWithinOne(peer, local_diff) == peer.total_difficulty <= local_diff + 1

\* line 278: peer.info.total_difficulty <= local_diff
CaughtUp(peer, local_diff) == peer.total_difficulty <= local_diff

\* Variant of AheadByThreshold with >= for >.
AheadByThresholdOrEqual(peer, local_diff, threshold) ==
    peer.total_difficulty >= local_diff + threshold

\* line 308: peer.info.total_difficulty > local_diff + threshold
AheadByThreshold(peer, local_diff, threshold) ==
    peer.total_difficulty > local_diff + threshold

\* Variant of NeedsSyncingWhenSyncing that keeps the flag when there is no
\* most-work peer.
NeedsSyncingWhenSyncingKeepsOn(is_syncing, peer, local_diff) ==
    IF peer.present /\ peer.readable
    THEN IF CaughtUp(peer, local_diff)
         THEN NsResult(FALSE, 0, 1)
         ELSE NsResult(is_syncing, peer.height, 0)
    ELSE NsResult(is_syncing, 0, 0)

\* lines 269-295, the branch taken when is_syncing is true
NeedsSyncingWhenSyncing(is_syncing, peer, local_diff) ==
    IF peer.present
    THEN IF peer.readable
         THEN IF CaughtUp(peer, local_diff)
              THEN NsResult(FALSE, 0, 1)
              ELSE NsResult(is_syncing, peer.height, 0)
         ELSE NsResult(is_syncing, 0, 0)
    ELSE NsResult(FALSE, 0, 0)

\* lines 296-320, the branch taken when is_syncing is false
NeedsSyncingWhenIdle(is_syncing, peer, local_diff, iter) ==
    IF peer.present /\ peer.readable
    THEN IF AheadByThreshold(peer, local_diff, Threshold(iter))
         THEN NsResult(TRUE, peer.height, 0)
         ELSE NsResult(is_syncing, peer.height, 0)
    ELSE NsResult(is_syncing, 0, 0)

needs_syncing(is_syncing, peer, local_diff, iter) ==
    IF is_syncing
    THEN NeedsSyncingWhenSyncing(is_syncing, peer, local_diff)
    ELSE NeedsSyncingWhenIdle(is_syncing, peer, local_diff, iter)

----------------------------------------------------------------------------
(* header_sync and request_headers, sync.rs:198-211 and 237-253.           *)
(* e.header_link is what happens on the peer handle during the call:       *)
(*   "locked"    peer.try_read() fails in header_sync (line 203)           *)
(*   "relocked"  it succeeds there and fails in request_headers (line 239) *)
(*   "send_err"  both succeed and send_header_request returns Err          *)
(*   "sent"      both succeed and the request is sent                      *)
(* The result is what became of the header request.                        *)

request_headers(e) ==
    IF ~e.sync_head_ok THEN "none"            \* get_locator(chain)? is Err
    ELSE IF e.header_link = "relocked" THEN "none"
    ELSE IF e.header_link = "send_err" THEN "failed"  \* let _ = ...
    ELSE "sent"

header_sync(e) ==
    IF /\ e.peer.present
       /\ e.header_link # "locked"
       /\ e.peer.total_difficulty > e.header_head.total_difficulty
    THEN request_headers(e)
    ELSE "none"

\* A call of header_sync that sends no request because peer.try_read()
\* failed, at line 203 or at line 239.
HeaderReadFailed(e) ==
    /\ e.peer.present
    /\ \/ e.header_link = "locked"
       \/ /\ e.header_link = "relocked"
          /\ e.peer.total_difficulty > e.header_head.total_difficulty
          /\ e.sync_head_ok

----------------------------------------------------------------------------
(* body_sync, sync.rs:124-196.                                             *)

RECURSIVE WalkBack(_, _)
\* lines 143-153: from height h down, push hashes until a header on the
\* current chain (or no header at all) is met
WalkBack(h, e) ==
    IF h < 0 \/ h <= e.head.height
    THEN <<>>
    ELSE <<h>> \o WalkBack(h - 1, e)

\* hashes.reverse()
Reverse(s) == [i \in 1 .. Len(s) |-> s[Len(s) + 1 - i]]

\* lines 140-155
BodyHashes(e) ==
    IF e.header_head.total_difficulty > e.head.total_difficulty
    THEN Reverse(WalkBack(e.header_head.height, e))
    ELSE <<>>

\* lines 159-160
BlockCount(e) == Min(e.more_work_peers, MaxPeerCount) * BlocksPerPeer

\* Variant of HashesToGet that takes block_count hashes before filtering.
HashesToGetTakeFirst(e) ==
    SelectSeq(Take(BodyHashes(e), BlockCount(e)),
              LAMBDA x : x \notin e.stored /\ x \notin e.orphans)

\* lines 162-171
HashesToGet(e) ==
    Take(SelectSeq(BodyHashes(e),
                   LAMBDA x : x \notin e.stored /\ x \notin e.orphans),
         BlockCount(e))

\* What happens to the request of the i-th hash (lines 186-193):
\* "no_peer", "locked", "send_err" or "sent".
BlockLink(e, i) == e.block_links[((i - 1) % Len(e.block_links)) + 1]

\* lines 173-195: the hashes send_block_request was called with, and how
\* many of those calls returned Err (logged, line 190)
body_sync(e) ==
    LET todo == HashesToGet(e)
        idx == {i \in 1 .. Len(todo) : BlockLink(e, i) \in {"sent", "send_err"}}
    IN  [requested |-> {todo[i] : i \in idx},
         failed |-> Cardinality({i \in idx : BlockLink(e, i) = "send_err"})]

----------------------------------------------------------------------------
(* fast_sync, sync.rs:213-234.                                             *)
(* e.fast_link: "locked" (try_read fails, line 217), "send_err"            *)
(* (send_txhashset_request returns Err) or "sent".                         *)

FsResult(p, r, h) == [panicked |-> p, request |-> r, height |-> h]

\* Variant of TxHashSetHeight that starts the walk at header_head itself.
TxHashSetHeightFromHead(e, hz) ==
    LET first == e.header_head.height
        steps == saturating_sub(hz, HorizonMargin)
    IN  IF first < 0 \/ first - steps < 0 THEN -1 ELSE first - steps

\* lines 226-229: the height of txhashset_head, or -1 when one of the
\* get_block_header(..).unwrap() calls finds no header
TxHashSetHeight(e, hz) ==
    LET first == e.header_head.height - 1
        steps == saturating_sub(hz, HorizonMargin)
    IN  IF first < 0 \/ first - steps < 0 THEN -1 ELSE first - steps

fast_sync(e, hz) ==
    IF e.peer.present /\ e.fast_link # "locked"
    THEN LET h == TxHashSetHeight(e, hz)
         IN  IF h < 0 THEN FsResult(TRUE, "none", 0)
             ELSE IF e.fast_link = "send_err"
                  THEN FsResult(TRUE, "failed", h)     \* .unwrap() on Err
                  ELSE FsResult(FALSE, "sent", h)
    ELSE FsResult(FALSE, "none", 0)

----------------------------------------------------------------------------
(* The driver thread of run_sync, sync.rs:42-121.                          *)
(*                                                                         *)
(* Time is counted in seconds.  The thread only ever compares              *)
(* current_time - prev_X with a constant, so the model keeps the three     *)
(* differences (the "ages") instead of the four instants, and stops        *)
(* counting an age once it is past its constant.                           *)

\* The environment of one tick: what the chain store and the peers answer.
Environment(co, hd, hh, it, pr, mw, st, orp, bl, hl, fl, sh) ==
    [chain_ok |-> co, head |-> hd, header_head |-> hh, diff_iter |-> it,
     peer |-> pr, more_work_peers |-> mw, stored |-> st, orphans |-> orp,
     block_links |-> bl, header_link |-> hl, fast_link |-> fl,
     sync_head_ok |-> sh]

\* The record of a tick that has not run.
NoTick ==
    [ran |-> FALSE, was_syncing |-> FALSE, highest_before |-> 0,
     syncing |-> FALSE,
     most_work_height |-> 0, resets |-> 0, fast_sync_enabled |-> FALSE,
     header_calls |-> 0, body_calls |-> 0, fast_calls |-> 0,
     header_request |-> "none", block_requests |-> {}, block_failures |-> 0,
     txhashset_request |-> "none", txhashset_height |-> 0]

\* An age after d more seconds; ages past `limit` are all alike.
Elapse(age, d, limit) == Min(age + d, limit + 1)

\* No phase has been called and no tick has begun.
NoCallYet ==
    /\ since_header = HeaderSyncSecs + 1
    /\ since_body = BodySyncSecs + 1
    /\ since_fast = FastSyncSecs + 1
    /\ ticks_after_stop = 0
    /\ header_read_failed = FALSE

\* d more seconds have passed since the last calls of the phases.
CallsAge(d) ==
    /\ since_header' = Elapse(since_header, d, HeaderSyncSecs)
    /\ since_body' = Elapse(since_body, d, BodySyncSecs)
    /\ since_fast' = Elapse(since_fast, d, FastSyncSecs)
    /\ UNCHANGED <<ticks_after_stop, header_read_failed>>

\* lines 43-46, with the thread about to run (E: the environments of the
\* specification, HZ: its horizons, SK and AR: its values of the arguments
\* skip_sync_wait and archive_mode)
DriverInit(E, HZ, SK, AR) ==
    /\ currently_syncing \in BOOLEAN
    /\ awaiting_peers = FALSE
    /\ stop = FALSE
    /\ skip_sync_wait \in SK
    /\ archive_mode \in AR
    /\ horizon \in HZ
    /\ pc = "start"
    /\ highest_height = 0
    /\ header_age = 0
    /\ body_age = 0
    /\ fast_age = FastSyncSecs
    /\ env \in E
    /\ tick = NoTick
    /\ NoCallYet

\* The driver's variables in the specifications that do not run it.
DriverAtRest ==
    /\ currently_syncing = FALSE
    /\ awaiting_peers = FALSE
    /\ stop = FALSE
    /\ skip_sync_wait = TRUE
    /\ archive_mode = FALSE
    /\ horizon = 0
    /\ pc = "stopped"
    /\ highest_height = 0
    /\ header_age = 0
    /\ body_age = 0
    /\ fast_age = FastSyncSecs
    /\ env = Environment(TRUE, Tip(0, 0), Tip(0, 0), <<>>, NoPeer, 0, {}, {},
                         <<"sent">>, "sent", "sent", TRUE)
    /\ tick = NoTick
    /\ NoCallYet

\* line 49 with skip_sync_wait: straight to the loop, d seconds after the
\* instants of lines 43-45 were taken
StartNoWait(d) ==
    /\ pc = "start"
    /\ skip_sync_wait
    /\ pc' = "tick"
    /\ header_age' = Elapse(header_age, d, HeaderSyncSecs)
    /\ body_age' = Elapse(body_age, d, BodySyncSecs)
    /\ fast_age' = Elapse(fast_age, d, FastSyncSecs)
    /\ CallsAge(d)
    /\ UNCHANGED <<currently_syncing, awaiting_peers, stop, skip_sync_wait,
                   archive_mode, horizon, highest_height, env, tick>>

\* lines 49-51: awaiting_peers.store(true), then the thread sleeps
StartWait ==
    /\ pc = "start"
    /\ ~skip_sync_wait
    /\ awaiting_peers' = TRUE
    /\ pc' = "waiting"
    /\ UNCHANGED <<currently_syncing, stop, skip_sync_wait, archive_mode,
                   horizon, highest_height, header_age, body_age, fast_age,
                   env, tick, since_header, since_body, since_fast,
                   ticks_after_stop, header_read_failed>>

\* lines 51-52: the 30 s are over, awaiting_peers.store(false)
EndWait ==
    /\ pc = "waiting"
    /\ awaiting_peers' = FALSE
    /\ pc' = "tick"
    /\ header_age' = Elapse(header_age, InitialWaitSecs, HeaderSyncSecs)
    /\ body_age' = Elapse(body_age, InitialWaitSecs, BodySyncSecs)
    /\ fast_age' = Elapse(fast_age, InitialWaitSecs, FastSyncSecs)
    /\ CallsAge(InitialWaitSecs)
    /\ UNCHANGED <<currently_syncing, stop, skip_sync_wait, archive_mode,
                   horizon, highest_height, env, tick>>

\* Variant of NextHighest without the test of line 72.
NextHighestAlways(highest, most_work_height) == most_work_height

\* Variant of NextHighest that keeps the largest height seen.
NextHighestMax(highest, most_work_height) ==
    IF most_work_height > highest THEN most_work_height ELSE highest

\* lines 72-75
NextHighest(highest, most_work_height) ==
    IF most_work_height > 0 THEN most_work_height ELSE highest

\* Variant of FastSyncEnabled that does not look at archive_mode.
FastSyncEnabledInArchive(archive, highest, head_height, hz) ==
    saturating_sub(highest, head_height) > hz

\* lines 80-81
FastSyncEnabled(archive, highest, head_height, hz) ==
    ~archive /\ saturating_sub(highest, head_height) > hz

\* Variant of HeaderSyncDue that compares with the cadence of body_sync.
HeaderSyncDueBodyCadence(age) == age > BodySyncSecs

\* Variant of HeaderSyncDue with >= for >.
HeaderSyncDueAtLimit(age) == age >= HeaderSyncSecs

\* line 92
HeaderSyncDue(age) == age > HeaderSyncSecs

\* line 99, the cadence half of the condition
BodySyncDue(age) == age > BodySyncSecs

\* line 107
FastSyncDue(age) == age > FastSyncSecs

\* Variant of HeaderAgeAfter that restarts the cadence only when a request
\* was sent.
HeaderAgeAfterRequest(run_header, request, age) ==
    IF run_header /\ request = "sent" THEN 0 ELSE age

\* lines 92-95: current_time - prev_header_sync once the tick has passed
\* them, `request` being what header_sync made of its request
HeaderAgeAfter(run_header, request, age) ==
    IF run_header THEN 0 ELSE age

\* Variant of RunsBodySync that does not look at fast_sync_enabled.
RunsBodySyncRegardless(fast_enabled, age) == BodySyncDue(age)

\* line 98
RunsBodySync(fast_enabled, age) == ~fast_enabled /\ BodySyncDue(age)

\* Variant of RunsFastSync that does not wait for the headers.
RunsFastSyncAnyHeaders(fast_enabled, header_height, highest, age) ==
    fast_enabled /\ FastSyncDue(age)

\* lines 106-107
RunsFastSync(fast_enabled, header_height, highest, age) ==
    fast_enabled /\ header_height = highest /\ FastSyncDue(age)

\* One pass through the loop body, lines 64-113.  chain.head() and
\* chain.get_header_head() are unwrapped at lines 65-66; the tick's other
\* reads of the two tips see the same values.
Tick ==
    /\ pc = "tick"
    /\ ticks_after_stop' = IF stop THEN ticks_after_stop + 1
                           ELSE ticks_after_stop
    /\ IF ~env.chain_ok
       THEN /\ pc' = "panicked"
            /\ UNCHANGED <<currently_syncing, highest_height, header_age,
                           body_age, fast_age, tick, since_header,
                           since_body, since_fast, header_read_failed>>
       ELSE LET ns == needs_syncing(currently_syncing, env.peer,
                                    env.head.total_difficulty, env.diff_iter)
                highest == NextHighest(highest_height, ns.height)
                fast_enabled == FastSyncEnabled(archive_mode, highest,
                                                env.head.height, horizon)
                run_header == ns.syncing /\ HeaderSyncDue(header_age)
                run_body == ns.syncing /\ RunsBodySync(fast_enabled, body_age)
                run_fast == ns.syncing /\ RunsFastSync(fast_enabled,
                                env.header_head.height, highest, fast_age)
                hs == IF run_header THEN header_sync(env) ELSE "none"
                bs == IF run_body THEN body_sync(env)
                      ELSE [requested |-> {}, failed |-> 0]
                fs == IF run_fast THEN fast_sync(env, horizon)
                      ELSE FsResult(FALSE, "none", 0)
            IN  /\ highest_height' = highest
                /\ header_age' = HeaderAgeAfter(run_header, hs, header_age)
                /\ body_age' = IF run_body THEN 0 ELSE body_age
                /\ fast_age' = IF run_fast /\ ~fs.panicked THEN 0 ELSE fast_age
                /\ since_header' = IF run_header THEN 0 ELSE since_header
                /\ since_body' = IF run_body THEN 0 ELSE since_body
                /\ since_fast' = IF run_fast THEN 0 ELSE since_fast
                /\ header_read_failed' = IF run_header
                                         THEN HeaderReadFailed(env)
                                         ELSE header_read_failed
                /\ IF fs.panicked
                   THEN pc' = "panicked" /\ UNCHANGED currently_syncing
                   ELSE pc' = "sleeping" /\ currently_syncing' = ns.syncing
                /\ tick' = [ran |-> TRUE,
                            was_syncing |-> currently_syncing,
                            highest_before |-> highest_height,
                            syncing |-> ns.syncing,
                            most_work_height |-> ns.height,
                            resets |-> ns.resets,
                            fast_sync_enabled |-> fast_enabled,
                            header_calls |-> IF run_header THEN 1 ELSE 0,
                            body_calls |-> IF run_body THEN 1 ELSE 0,
                            fast_calls |-> IF run_fast THEN 1 ELSE 0,
                            header_request |-> hs,
                            block_requests |-> bs.requested,
                            block_failures |-> bs.failed,
                            txhashset_request |-> fs.request,
                            txhashset_height |-> fs.height]
    /\ UNCHANGED <<awaiting_peers, stop, skip_sync_wait, archive_mode,
                   horizon, env>>

\* Variant of StopObserved that honours the flag only when not syncing.
StopObservedWhenIdle == stop /\ ~currently_syncing

\* line 117
StopObserved == stop

\* lines 115-119 with stop not set: the thread slept d seconds (d >= 1) and
\* goes round the loop; the next tick will read environment e
SleepAndLoop(d, e) ==
    /\ pc = "sleeping"
    /\ ~StopObserved
    /\ pc' = "tick"
    /\ header_age' = Elapse(header_age, d, HeaderSyncSecs)
    /\ body_age' = Elapse(body_age, d, BodySyncSecs)
    /\ fast_age' = Elapse(fast_age, d, FastSyncSecs)
    /\ CallsAge(d)
    /\ env' = e
    /\ tick' = NoTick
    /\ UNCHANGED <<currently_syncing, awaiting_peers, stop, skip_sync_wait,
                   archive_mode, horizon, highest_height>>

\* lines 115-119 with stop set: break, the thread ends
SleepAndBreak ==
    /\ pc = "sleeping"
    /\ StopObserved
    /\ pc' = "stopped"
    /\ UNCHANGED <<currently_syncing, awaiting_peers, stop, skip_sync_wait,
                   archive_mode, horizon, highest_height, header_age,
                   body_age, fast_age, env, tick, since_header, since_body,
                   since_fast, ticks_after_stop, header_read_failed>>

\* The rest of the node sets the stop flag while the thread lives.
SetStop ==
    /\ ~stop
    /\ pc \notin {"stopped", "panicked"}
    /\ stop' = TRUE
    /\ UNCHANGED <<currently_syncing, awaiting_peers, skip_sync_wait,
                   archive_mode, horizon, pc, highest_height, header_age,
                   body_age, fast_age, env, tick, since_header, since_body,
                   since_fast, ticks_after_stop, header_read_failed>>

----------------------------------------------------------------------------
(* get_locator_heights, sync.rs:348-358, one action per loop iteration.    *)

LocInit ==
    /\ lh_pc = "idle"
    /\ lh_height \in 0 .. MaxHeight
    /\ lh_current = 0
    /\ lh_heights = <<>>
    /\ DriverAtRest

\* let mut current = height.clone(); let mut heights = vec![];
LocCall ==
    /\ lh_pc = "idle"
    /\ lh_pc' = "loop"
    /\ lh_current' = lh_height
    /\ lh_heights' = <<>>
    /\ UNCHANGED lh_height

\* The value of `current` after one iteration, given the step `next`.
LocNextCurrent(current, next) ==
    IF current > next THEN current - next ELSE 0

\* One iteration of `while current > 0 { ... }`.
LocIterate ==
    /\ lh_pc = "loop"
    /\ lh_current > 0
    /\ Len(lh_heights) < MaxLocLen
    /\ LET pushed == Append(lh_heights, lh_current)
       IN  \E p \in PowOutcomes(Len(pushed)) :
              IF p.overflow
              THEN /\ lh_pc' = "panicked"
                   /\ lh_heights' = pushed
                   /\ UNCHANGED lh_current
              ELSE /\ lh_pc' = "loop"
                   /\ lh_heights' = pushed
                   /\ lh_current' = LocNextCurrent(lh_current, p.value)
    /\ UNCHANGED lh_height

\* Loop exit: heights.push(0); heights
LocReturn ==
    /\ lh_pc = "loop"
    /\ lh_current = 0
    /\ lh_pc' = "returned"
    /\ lh_heights' = Append(lh_heights, 0)
    /\ UNCHANGED <<lh_height, lh_current>>

LocNext ==
    \/ LocCall /\ UNCHANGED dvars
    \/ LocIterate /\ UNCHANGED dvars
    \/ LocReturn /\ UNCHANGED dvars

SpecLoc == LocInit /\ [][LocNext]_vars

----------------------------------------------------------------------------
(* get_locator_heights is not running in the driver's specifications.      *)

LocAtRest ==
    /\ lh_pc = "idle"
    /\ lh_height = 0
    /\ lh_current = 0
    /\ lh_heights = <<>>

----------------------------------------------------------------------------
(* SpecNeeds: the thread up to the end of its first tick, on every         *)
(* difficulty iterator of at most MaxIterLen entries and every peer and    *)
(* local difficulty up to MaxPeerDifficulty and MaxLocalDifficulty.        *)

RECURSIVE SeqsUpTo(_, _)
\* The sequences over S of length at most n.
SeqsUpTo(S, n) ==
    IF n = 0 THEN {<<>>}
    ELSE LET shorter == SeqsUpTo(S, n - 1)
         IN  shorter \cup {Append(q, x) : q \in shorter, x \in S}

DiffIters == SeqsUpTo({DiffErr, DiffOk(1), DiffOk(2)}, MaxIterLen)

NeedsPeers ==
    {NoPeer, PeerInfo(2, 1, FALSE)}
        \cup {PeerInfo(2, d, TRUE) : d \in 0 .. MaxPeerDifficulty}

EnvNeeds ==
    {Environment(TRUE, Tip(0, ld), Tip(0, ld), it, pr,
                 IF pr.present /\ pr.total_difficulty > ld THEN 1 ELSE 0,
                 {}, {}, <<"sent">>, "sent", "sent", TRUE) :
        ld \in 0 .. MaxLocalDifficulty, it \in DiffIters, pr \in NeedsPeers}

InitNeeds ==
    /\ DriverInit(EnvNeeds, {0}, {TRUE}, {FALSE})
    /\ LocAtRest

NextNeeds ==
    \/ StartNoWait(0) /\ UNCHANGED lvars
    \/ Tick /\ UNCHANGED lvars

SpecNeeds == InitNeeds /\ [][NextNeeds]_vars

----------------------------------------------------------------------------
(* Environments built on a chain of unit-difficulty blocks: the head is at *)
(* height k, the header head at height n >= k, a tip's total difficulty is *)
(* its height and chain.difficulty_iter() yields the k difficulties of the *)
(* blocks below the head.                                                  *)

UnitIter(k) == [i \in 1 .. k |-> DiffOk(1)]

\* The peers with more work than the local chain, as far as the model
\* knows them: the most-work peer, if it has more work.
MoreWorkPeers(pr, local_diff) ==
    IF pr.present /\ pr.total_difficulty > local_diff THEN 1 ELSE 0

\* The environment of a tick on the chain (k, n) with most-work peer pr,
\* given what happens to the requests (bl, hl, fl) and to get_sync_head (sh).
ChainEnv(k, n, pr, bl, hl, fl, sh) ==
    Environment(TRUE, Tip(k, k), Tip(n, n), UnitIter(k), pr,
                MoreWorkPeers(pr, k), {}, {}, bl, hl, fl, sh)

\* A tick in which chain.head() or chain.get_header_head() fails.
ChainDown ==
    Environment(FALSE, Tip(0, 0), Tip(0, 0), <<>>, NoPeer, 0, {}, {},
                <<"sent">>, "sent", "sent", TRUE)

Chains == {c \in (0 .. MaxChain) \X (0 .. MaxChain) : c[1] <= c[2]}

----------------------------------------------------------------------------
(* Spec: the loop of the thread.  Every peer height up to MaxChain and     *)
(* every peer difficulty up to MaxChain + 1, on every chain up to          *)
(* MaxChain; every request reaches its peer.  A pass of the loop takes     *)
(* more than FastSyncSecs, so past the first tick every cadence has        *)
(* elapsed; the first tick comes 0, 1, 6 or 11 s after the start.          *)

MainPeers ==
    {NoPeer, PeerInfo(MaxChain, MaxChain + 1, FALSE)}
        \cup {PeerInfo(h, d, TRUE) : h \in 0 .. MaxChain,
                                     d \in 0 .. MaxChain + 1}

EnvMain ==
    {ChainDown} \cup
    {ChainEnv(c[1], c[2], pr, <<"sent">>, "sent", "sent", TRUE) :
        c \in Chains, pr \in MainPeers}

Init ==
    /\ DriverInit(EnvMain, 0 .. MaxHorizon, {TRUE}, BOOLEAN)
    /\ LocAtRest

Next ==
    \/ \E d \in {0, 1, 6, 11} : StartNoWait(d) /\ UNCHANGED lvars
    \/ Tick /\ UNCHANGED lvars
    \/ \E e \in EnvMain : SleepAndLoop(FastSyncSecs + 1, e) /\ UNCHANGED lvars
    \/ SleepAndBreak /\ UNCHANGED lvars
    \/ SetStop /\ UNCHANGED lvars

Spec == Init /\ [][Next]_vars

----------------------------------------------------------------------------
(* SpecCadence: the loop with its 1 s sleep (a pass takes 1 or 2 s), on a  *)
(* peer of height 1 and difficulty 2 that comes and goes, and a chain of   *)
(* at most one block; horizon 0, no archive mode, no initial wait.         *)

EnvCadence ==
    {ChainEnv(c[1], c[2], pr, <<"sent">>, "sent", "sent", TRUE) :
        c \in {<<0, 0>>, <<0, 1>>, <<1, 1>>},
        pr \in {NoPeer, PeerInfo(1, 2, TRUE)}}

InitCadence ==
    /\ DriverInit(EnvCadence, {0}, {TRUE}, {FALSE})
    /\ LocAtRest

NextCadence ==
    \/ \E d \in {0, 1} : StartNoWait(d) /\ UNCHANGED lvars
    \/ Tick /\ UNCHANGED lvars
    \/ \E d \in {1, 2}, e \in EnvCadence : SleepAndLoop(d, e) /\ UNCHANGED lvars

SpecCadence == InitCadence /\ [][NextCadence]_vars

----------------------------------------------------------------------------
(* SpecStop: the whole life of the thread, with and without the initial    *)
(* wait for peers, and the stop flag set at any moment of it; the chains   *)
(* and the peer of SpecCadence, slow passes as in Spec.                    *)

InitStop ==
    /\ DriverInit(EnvCadence, {0}, BOOLEAN, BOOLEAN)
    /\ LocAtRest

NextStop ==
    \/ \E d \in {0, 1} : StartNoWait(d) /\ UNCHANGED lvars
    \/ StartWait /\ UNCHANGED lvars
    \/ EndWait /\ UNCHANGED lvars
    \/ Tick /\ UNCHANGED lvars
    \/ \E e \in EnvCadence : SleepAndLoop(FastSyncSecs + 1, e) /\ UNCHANGED lvars
    \/ SleepAndBreak /\ UNCHANGED lvars
    \/ SetStop /\ UNCHANGED lvars

SpecStop == InitStop /\ [][NextStop]_vars

\* The steps of the thread itself in NextStop.
ThreadStop ==
    \/ \E d \in {0, 1} : StartNoWait(d) /\ UNCHANGED lvars
    \/ StartWait /\ UNCHANGED lvars
    \/ EndWait /\ UNCHANGED lvars
    \/ Tick /\ UNCHANGED lvars
    \/ \E e \in EnvCadence : SleepAndLoop(FastSyncSecs + 1, e) /\ UNCHANGED lvars
    \/ SleepAndBreak /\ UNCHANGED lvars

\* SpecStop with a thread that is scheduled and whose sleeps end: a step of
\* the thread that stays possible is eventually taken.
SpecStopLive == SpecStop /\ WF_vars(ThreadStop)

----------------------------------------------------------------------------
(* SpecLinks: the loop on a peer of height 2 and difficulty 3, with every  *)
(* outcome of the non-blocking reads and of the sends inside header_sync,  *)
(* body_sync and fast_sync; horizon 0, slow passes as in Spec.             *)

HeaderLinks == {"locked", "relocked", "send_err", "sent"}

FastLinks == {"locked", "send_err", "sent"}

BlockLinks == {"no_peer", "locked", "send_err", "sent"}

\* What happens to the requests of a tick: either every block request
\* alike with any outcome of the header and txhashset requests and of
\* get_sync_head, or the first two block requests each their own way with
\* the rest going well.
LinkCases ==
    {<<(<<b>>), hl, fl, sh>> :
        b \in BlockLinks, hl \in HeaderLinks, fl \in FastLinks,
        sh \in BOOLEAN}
    \cup {<<bl, "sent", "sent", TRUE>> :
            bl \in SeqsUpTo(BlockLinks, 2) \ {<<>>}}

EnvLinks ==
    {ChainEnv(c[1], c[2], pr, lc[1], lc[2], lc[3], lc[4]) :
        c \in {<<0, 2>>, <<1, 2>>, <<2, 2>>},
        pr \in {NoPeer, PeerInfo(2, 3, TRUE)},
        lc \in LinkCases}

InitLinks ==
    /\ DriverInit(EnvLinks, {0}, {TRUE}, BOOLEAN)
    /\ LocAtRest

NextLinks ==
    \/ \E d \in {0, 11} : StartNoWait(d) /\ UNCHANGED lvars
    \/ Tick /\ UNCHANGED lvars
    \/ \E e \in EnvLinks : SleepAndLoop(FastSyncSecs + 1, e) /\ UNCHANGED lvars

SpecLinks == InitLinks /\ [][NextLinks]_vars

----------------------------------------------------------------------------
(* SpecSecond: the loop with its 1 s sleep (a pass takes 1 or 2 s) in      *)
(* archive mode, on a peer of height 1 and difficulty 2 that comes, goes   *)
(* and is locked, with every outcome of the reads and of the send inside   *)
(* header_sync and of get_sync_head; the header head is below, or level    *)
(* with, the peer's difficulty.                                            *)

EnvSecond ==
    {ChainEnv(c[1], c[2], pr, <<"sent">>, hl, "sent", sh) :
        c \in {<<0, 1>>, <<1, 1>>, <<0, 2>>},
        pr \in {NoPeer, PeerInfo(1, 2, TRUE), PeerInfo(1, 2, FALSE)},
        hl \in HeaderLinks,
        sh \in BOOLEAN}

InitSecond ==
    /\ DriverInit(EnvSecond, {0}, {TRUE}, {TRUE})
    /\ LocAtRest

NextSecond ==
    \/ \E d \in {0, 1} : StartNoWait(d) /\ UNCHANGED lvars
    \/ Tick /\ UNCHANGED lvars
    \/ \E d \in {1, 2}, e \in EnvSecond : SleepAndLoop(d, e) /\ UNCHANGED lvars

SpecSecond == InitSecond /\ [][NextSecond]_vars

----------------------------------------------------------------------------
(* SpecBody: the loop in archive mode (body_sync is the only download),    *)
(* slow passes as in Spec, on header chains of up to MaxBodyChain headers  *)
(* above a head at height 0 or 1, with some of the blocks stored or in the *)
(* orphan set, 0, 1, 2 or more than MaxPeerCount peers with more work, and *)
(* block requests that meet no peer, a locked peer or a send error.        *)

\* The most-work peer of SpecBody, ahead of every local chain.
BodyPeer == PeerInfo(MaxBodyChain, MaxBodyChain + 2, TRUE)

BodyEnv(hd, hh, mw, st, orp, bl) ==
    Environment(TRUE, hd, hh, UnitIter(hd.height), BodyPeer, mw, st, orp,
                bl, "sent", "sent", TRUE)

\* (head, header_head): unit-difficulty chains, and a header chain that is
\* longer than the current chain without more work.
BodyChains ==
    {<<Tip(k, k), Tip(n, n)>> :
        k \in {0, 1}, n \in {1, MaxBodyChain - 1, MaxBodyChain}}
    \cup {<<Tip(0, MaxBodyChain + 1), Tip(MaxBodyChain, MaxBodyChain)>>}

BodyLinks ==
    {<<"sent">>, <<"locked", "sent">>, <<"sent", "sent", "no_peer">>,
     <<"send_err">>}

EnvBody ==
    {BodyEnv(c[1], c[2], mw, st, orp, bl) :
        c \in BodyChains,
        mw \in {0, 1, 2, MaxPeerCount + 1},
        st \in {{}, {1}, {2, MaxBodyChain}},
        orp \in {{}, {3}},
        bl \in BodyLinks}

InitBody ==
    /\ DriverInit(EnvBody, {0}, {TRUE}, {TRUE})
    /\ LocAtRest

NextBody ==
    \/ \E d \in {0, 6} : StartNoWait(d) /\ UNCHANGED lvars
    \/ Tick /\ UNCHANGED lvars
    \/ \E e \in EnvBody : SleepAndLoop(FastSyncSecs + 1, e) /\ UNCHANGED lvars

SpecBody == InitBody /\ [][NextBody]_vars

----------------------------------------------------------------------------
(* SpecFast: the loop with fast sync allowed, slow passes as in Spec, on   *)
(* the horizons 0, HorizonMargin - 1, HorizonMargin and HorizonMargin +    *)
(* MaxFastDepth and header chains long enough to enable fast sync on each  *)
(* of them, above a head at height 0 or 1; the peer is at any of the       *)
(* heights of those chains, and its handle is locked, fails the send or    *)
(* sends.                                                                  *)

FastHorizons ==
    {0, HorizonMargin - 1, HorizonMargin, HorizonMargin + MaxFastDepth}

MaxFastChain == HorizonMargin + MaxFastDepth + 2

FastPeers ==
    {NoPeer, PeerInfo(MaxFastChain, MaxFastChain + 1, FALSE)}
        \cup {PeerInfo(h, MaxFastChain + 1, TRUE) :
                 h \in HorizonMargin .. MaxFastChain}

EnvFast ==
    {ChainEnv(k, n, pr, <<"sent">>, "sent", fl, TRUE) :
        k \in {0, 1},
        n \in {1} \cup (HorizonMargin .. MaxFastChain),
        pr \in FastPeers,
        fl \in FastLinks}

InitFast ==
    /\ DriverInit(EnvFast, FastHorizons, {TRUE}, {FALSE})
    /\ LocAtRest

NextFast ==
    \/ \E d \in {0, 1} : StartNoWait(d) /\ UNCHANGED lvars
    \/ Tick /\ UNCHANGED lvars
    \/ \E e \in EnvFast : SleepAndLoop(FastSyncSecs + 1, e) /\ UNCHANGED lvars

SpecFast == InitFast /\ [][NextFast]_vars

----------------------------------------------------------------------------
(* Properties.                                                             *)

IsPrefix(a, b) ==
    /\ Len(a) <= Len(b)
    /\ \A i \in 1 .. Len(a) : a[i] = b[i]

RECURSIVE LocatorRuleFrom(_)
\* The list of claim C1, continued from the entries s (unbounded integers):
\* after n entries the next one is last - 2^n if last > 2^n, otherwise 0,
\* and the list ends with its first 0.
LocatorRuleFrom(s) ==
    LET n == Len(s)
        last == s[n]
    IN  IF last = 0 THEN s
        ELSE LocatorRuleFrom(Append(s, IF last > 2 ^ n THEN last - 2 ^ n
                                       ELSE 0))

LocatorRule(h) == LocatorRuleFrom(<<h>>)

\* C1: for every starting height h, get_locator_heights(h) returns the list
\* of the rule (start with h; after n entries the next is last - 2^n if
\* last > 2^n, else 0; stop at the first 0): the call never panics, the
\* vector under construction is always a prefix of that list, the returned
\* vector is that list, strictly decreasing with 0 exactly once, and the
\* test's vectors for 0, 2, 10 and 10000 come out.
C1_LocatorRule ==
    /\ lh_pc # "panicked"
    /\ lh_pc = "loop" => IsPrefix(lh_heights, LocatorRule(lh_height))
    /\ lh_pc = "returned" =>
          /\ lh_heights = LocatorRule(lh_height)
          /\ \A i \in 1 .. Len(lh_heights) - 1 :
                lh_heights[i] > lh_heights[i + 1]
          /\ Cardinality({i \in 1 .. Len(lh_heights) : lh_heights[i] = 0}) = 1
          /\ lh_height = 0 => lh_heights = <<0>>
          /\ lh_height = 2 => lh_heights = <<2, 0>>
          /\ lh_height = 10 => lh_heights = <<10, 8, 4, 0>>
          /\ lh_height = 10000 =>
                lh_heights = <<10000, 9998, 9994, 9986, 9970, 9938, 9874,
                               9746, 9490, 8978, 7954, 5906, 1810, 0>>

RECURSIVE FirstOkSum(_, _)
\* The sum of the first n non-error entries of a difficulty iterator.
FirstOkSum(iter, n) ==
    IF n = 0 \/ iter = <<>> THEN 0
    ELSE IF Head(iter).ok
         THEN Head(iter).difficulty + FirstOkSum(Tail(iter), n - 1)
         ELSE FirstOkSum(Tail(iter), n)

\* C2: on a tick that starts with currently_syncing false and reads the
\* most-work peer, needs_syncing answers (true, peer.height) exactly when
\* the peer's total difficulty is strictly above local_diff plus the sum of
\* the first 5 non-error iterator entries, and otherwise answers
\* (false, peer.height) and the driver leaves currently_syncing false.
C2_SwitchOnAboveThreshold ==
    (tick.ran /\ ~tick.was_syncing /\ env.peer.present /\ env.peer.readable)
    => LET above == env.peer.total_difficulty >
                      env.head.total_difficulty + FirstOkSum(env.diff_iter, 5)
       IN  /\ tick.syncing = above
           /\ tick.most_work_height = env.peer.height
           /\ ~above => (pc = "sleeping" /\ ~currently_syncing)

\* A tick that started idle, read a peer exactly at local_diff + threshold
\* with more than 5 non-error entries offered, and stayed idle.
C2_Witness ==
    /\ tick.ran /\ ~tick.was_syncing
    /\ env.peer.present /\ env.peer.readable
    /\ Len(OkDifficulties(env.diff_iter)) > 5
    /\ env.peer.total_difficulty =
          env.head.total_difficulty + FirstOkSum(env.diff_iter, 5)
    /\ ~tick.syncing /\ ~currently_syncing
    /\ tick.most_work_height = 2

\* The most-work peer was read by needs_syncing in the tick's environment.
PeerRead == env.peer.present /\ env.peer.readable

\* A step of the thread that runs the body of the loop.
TickStep == pc = "tick" /\ pc' # "tick"

\* C3: chain.reset_head() is called by needs_syncing exactly in the calls
\* made with currently_syncing true in which the peer is read and its total
\* difficulty is <= local_diff; such a call returns (false, 0), so the tick
\* of a catch-up calls reset_head once and publishes false, and a tick that
\* starts with currently_syncing false never calls it.
C3_ResetHeadOnCatchUp ==
    tick.ran =>
       LET catch_up == /\ tick.was_syncing
                       /\ PeerRead
                       /\ env.peer.total_difficulty <= env.head.total_difficulty
       IN  /\ tick.resets = (IF catch_up THEN 1 ELSE 0)
           /\ catch_up => /\ ~tick.syncing
                          /\ tick.most_work_height = 0
                          /\ ~currently_syncing
           /\ ~tick.was_syncing => tick.resets = 0

\* A catch-up on a peer whose difficulty equals the local one.
C3_Witness ==
    /\ tick.ran /\ tick.was_syncing /\ PeerRead
    /\ env.peer.total_difficulty = env.head.total_difficulty
    /\ env.peer.total_difficulty > 0
    /\ tick.resets = 1
    /\ ~currently_syncing

\* C4: a tick that starts with currently_syncing true and finds no
\* most-work peer gets (false, 0) from needs_syncing without a reset_head
\* call, calls none of header_sync, body_sync and fast_sync, and publishes
\* currently_syncing = false.
C4_NoPeerSwitchesOff ==
    (tick.ran /\ tick.was_syncing /\ ~env.peer.present)
    => /\ ~tick.syncing
       /\ tick.most_work_height = 0
       /\ tick.resets = 0
       /\ tick.header_calls = 0 /\ tick.body_calls = 0 /\ tick.fast_calls = 0
       /\ pc # "panicked"
       /\ ~currently_syncing

\* The peers are gone in the middle of a sync: a peer height had been seen.
C4_Witness ==
    /\ tick.ran /\ tick.was_syncing /\ ~env.peer.present
    /\ highest_height > 0
    /\ ~currently_syncing
    /\ pc = "sleeping"

\* C5: over a tick, (a) a true flag stays true, with (true, peer.height)
\* reported, whenever the peer is read with a difficulty strictly above
\* local_diff, be it within the threshold; (b) the flag goes from true to
\* false only when there is no most-work peer or the peer read has a
\* difficulty <= local_diff; (c) it goes from false to true only when the
\* peer read has a difficulty above local_diff + threshold.
C5_Hysteresis ==
    [][TickStep =>
         LET local == env.head.total_difficulty
             above == PeerRead /\ env.peer.total_difficulty > local
         IN  /\ (currently_syncing /\ above)
                  => /\ currently_syncing'
                     /\ tick'.syncing
                     /\ tick'.most_work_height = env.peer.height
             /\ (currently_syncing /\ ~currently_syncing')
                  => \/ ~env.peer.present
                     \/ PeerRead /\ env.peer.total_difficulty <= local
             /\ (~currently_syncing /\ currently_syncing')
                  => /\ PeerRead
                     /\ env.peer.total_difficulty >
                           local + FirstOkSum(env.diff_iter, 5)]_vars

\* A syncing tick on a peer ahead of the local chain but not above the
\* threshold, which keeps the flag.
C5_Witness ==
    /\ tick.ran /\ tick.was_syncing /\ PeerRead
    /\ env.peer.total_difficulty > env.head.total_difficulty
    /\ env.peer.total_difficulty <=
          env.head.total_difficulty + FirstOkSum(env.diff_iter, 5)
    /\ tick.syncing /\ currently_syncing
    /\ tick.most_work_height = env.peer.height

\* C6: a tick calls each of header_sync, body_sync and fast_sync at most
\* once and only when needs_syncing returned syncing = true; a call of
\* header_sync comes more than 10 s after the previous one, a call of
\* body_sync more than 5 s, a call of fast_sync more than 5 min.
C6_CadenceLowerBounds ==
    [][TickStep =>
         /\ tick'.header_calls \in {0, 1}
         /\ tick'.body_calls \in {0, 1}
         /\ tick'.fast_calls \in {0, 1}
         /\ tick'.header_calls + tick'.body_calls + tick'.fast_calls > 0
               => tick'.syncing
         /\ tick'.header_calls = 1 => since_header > 10
         /\ tick'.body_calls = 1 => since_body > 5
         /\ tick'.fast_calls = 1 => since_fast > 5 * 60]_vars

\* A syncing tick exactly 10 s after a call of header_sync, which does not
\* call it again, in a run where fast_sync has been called as well.
C6_Witness ==
    /\ tick.ran /\ tick.syncing
    /\ since_header = 10
    /\ tick.header_calls = 0
    /\ since_fast <= FastSyncSecs

\* C7: wherever the stop flag is set, the wait for peers included, the
\* thread begins at most one more tick and then ends (it leaves the loop, or
\* dies of a panic in that tick), and it leaves the loop only with the flag
\* set.
C7_StopWithinOneTick ==
    /\ [](ticks_after_stop <= 1)
    /\ [](pc = "stopped" => stop)
    /\ stop ~> (pc \in {"stopped", "panicked"})

\* The thread waited for peers, ran one tick that began with the flag set,
\* and ended.
C7_Witness ==
    /\ pc = "stopped"
    /\ ~skip_sync_wait
    /\ ticks_after_stop = 1
    /\ tick.ran

\* C8: fast_sync is called only on a tick where needs_syncing returned
\* syncing = true, archive_mode is false, highest_height saturating-minus
\* head.height is above the horizon and header_head.height = highest_height;
\* with archive_mode it is never called.
C8_FastSyncOnlyWhenEnabled ==
    /\ tick.fast_calls > 0 =>
          /\ tick.syncing
          /\ ~archive_mode
          /\ (IF highest_height > env.head.height
              THEN highest_height - env.head.height ELSE 0) > horizon
          /\ env.header_head.height = highest_height
    /\ archive_mode => (tick.fast_calls = 0 /\ tick.txhashset_request = "none")

\* fast_sync called with a horizon of at least 1.
C8_Witness ==
    /\ tick.fast_calls = 1
    /\ horizon > 0
    /\ tick.txhashset_request = "sent"

\* Whether fast sync is enabled on the tick just run, from the claim's
\* words.
FastEnabledNow ==
    /\ ~archive_mode
    /\ (IF highest_height > env.head.height
        THEN highest_height - env.head.height ELSE 0) > horizon

\* C9: no tick calls body_sync while fast_sync_enabled is true for it, nor
\* body_sync and fast_sync together.
C9_NoBodySyncWhileFastEnabled ==
    tick.ran =>
       /\ ~(tick.body_calls > 0 /\ FastEnabledNow)
       /\ ~(tick.body_calls > 0 /\ tick.fast_calls > 0)
       /\ tick.fast_sync_enabled = FastEnabledNow

\* A syncing tick with fast sync enabled and headers still behind: the
\* cadences have elapsed, header_sync is called and body_sync is not.
C9_Witness ==
    /\ tick.ran /\ tick.syncing /\ FastEnabledNow
    /\ tick.header_calls = 1
    /\ tick.body_calls = 0 /\ tick.fast_calls = 0

\* C10: a send that fails inside header_sync, body_sync or fast_sync is
\* swallowed: the thread does not panic and goes on to its sleep and its
\* next tick.
C10_SendErrorsSwallowed ==
    (/\ tick.ran
     /\ \/ tick.header_request = "failed"
        \/ tick.block_failures > 0
        \/ tick.txhashset_request = "failed")
    => pc = "sleeping"

\* C11: on a tick for which needs_syncing reports height 0 (as it does when
\* there is no most-work peer, when the non-blocking read of the peer fails
\* and on a catch-up), highest_height keeps the value it had before the
\* tick and fast_sync_enabled is computed from that value.
C11_ZeroHeightKeepsHighest ==
    [][(TickStep /\ tick'.ran) =>
         /\ (\/ ~env.peer.present
             \/ ~env.peer.readable
             \/ /\ currently_syncing
                /\ env.peer.total_difficulty <= env.head.total_difficulty)
               => tick'.most_work_height = 0
         /\ tick'.most_work_height = 0 =>
               /\ highest_height' = highest_height
               /\ tick'.fast_sync_enabled =
                     (/\ ~archive_mode
                      /\ (IF highest_height > env.head.height
                          THEN highest_height - env.head.height
                          ELSE 0) > horizon)]_vars

\* A tick whose read of the peer failed, after a height had been stored,
\* with fast sync enabled by the stored height.
C11_Witness ==
    /\ tick.ran
    /\ env.peer.present /\ ~env.peer.readable
    /\ tick.most_work_height = 0
    /\ tick.highest_before > 0
    /\ highest_height = tick.highest_before
    /\ tick.fast_sync_enabled

\* C12 as stated: over a tick, highest_height does not decrease, unless it
\* becomes 0 on a failed non-blocking read of the peer.
C12_HighestNeverDecreases ==
    [][(TickStep /\ tick'.ran) =>
         \/ highest_height' >= highest_height
         \/ /\ highest_height' = 0
            /\ env.peer.present /\ ~env.peer.readable]_vars

\* C12 amended: over a tick, highest_height becomes the height of the
\* most-work peer when needs_syncing read one that is not 0, be it lower
\* than the stored one, and otherwise keeps its value; it is never reset to
\* 0, a failed read of the peer included.
C12_HighestIsLastNonzeroReading ==
    [][(TickStep /\ tick'.ran) =>
         LET reading ==
               /\ PeerRead
               /\ env.peer.height > 0
               /\ ~(/\ currently_syncing
                    /\ env.peer.total_difficulty <= env.head.total_difficulty)
         IN  /\ highest_height' = (IF reading THEN env.peer.height
                                   ELSE highest_height)
             /\ highest_height > 0 => highest_height' > 0]_vars

\* A tick that read a peer lower than the height stored before it.
C12_Witness ==
    /\ tick.ran /\ PeerRead
    /\ highest_height = env.peer.height
    /\ highest_height > 0
    /\ highest_height < tick.highest_before

\* C13 as stated: when a call of header_sync sent no request because the
\* non-blocking read of the peer failed, the tick that follows it (1 s
\* later) calls header_sync again if syncing is true on it.
C13_RetryOnNextTick ==
    [][(/\ TickStep /\ tick'.ran
        /\ header_read_failed
        /\ since_header = 1
        /\ tick'.syncing)
       => tick'.header_calls = 1]_vars

\* C13 amended: a call of header_sync restarts the 10 s cadence whether or
\* not it sent a request, so after a call that failed to read the peer no
\* tick calls header_sync for 10 s, and the first syncing tick more than
\* 10 s after it does.
C13_RetryOnNextCadence ==
    [][(TickStep /\ tick'.ran /\ header_read_failed) =>
         /\ since_header <= 10 => tick'.header_calls = 0
         /\ (since_header > 10 /\ tick'.syncing) => tick'.header_calls = 1]_vars

\* The syncing tick 1 s after a call of header_sync that failed to read the
\* peer: it does not call header_sync.
C13_Witness ==
    /\ tick.ran /\ tick.syncing
    /\ header_read_failed
    /\ since_header = 1
    /\ tick.header_calls = 0

\* C16 as stated: a syncing tick calls header_sync when at least 10 s have
\* elapsed since prev_header_sync, exactly 10 s included.
C16_HeaderSyncAtTenSeconds ==
    [][(/\ TickStep /\ tick'.ran
        /\ tick'.syncing
        /\ header_age >= 10)
       => tick'.header_calls = 1]_vars

\* C16 amended: a syncing tick calls header_sync exactly when more than
\* 10 s have elapsed since prev_header_sync; at exactly 10 s it does not and
\* leaves prev_header_sync alone; up to 10 s after a call the elapsed time
\* is the time since that call, so with a 1 s tick and syncing continuously
\* true successive calls are 11 ticks apart.
C16_HeaderSyncAfterTenSeconds ==
    [][(TickStep /\ tick'.ran /\ tick'.syncing) =>
         /\ tick'.header_calls = (IF header_age > 10 THEN 1 ELSE 0)
         /\ header_age = 10 => (tick'.header_calls = 0 /\ header_age' = 10)
         /\ since_header <= 10 => header_age = since_header]_vars

\* A syncing tick exactly 10 s after a call of header_sync: no call.
C16_Witness ==
    /\ tick.ran /\ tick.syncing
    /\ since_header = 10
    /\ header_age = 10
    /\ tick.header_calls = 0

\* The heights above head, up to header_head, whose blocks are neither
\* stored nor in the orphan set: H(k+1) .. Hn with those removed.
MissingBlocks ==
    {h \in (env.head.height + 1) .. env.header_head.height :
        h \notin env.stored /\ h \notin env.orphans}

\* The position of h among the missing blocks, in ascending height.
RankOf(h) == Cardinality({x \in MissingBlocks : x <= h})

\* min(number of more-work peers, 10) x 10
BodyCap ==
    (IF env.more_work_peers < 10 THEN env.more_work_peers ELSE 10) * 10

\* C14 as stated: the hashes body_sync calls send_block_request with are a
\* prefix, in ascending height, of the missing blocks, at most
\* min(more-work peers, 10) x 10 of them, and none when header_head has no
\* more total difficulty than head or when there is no more-work peer.
C14_RequestedIsPrefix ==
    tick.body_calls = 1 =>
       /\ \E m \in 0 .. Cardinality(MissingBlocks) :
             tick.block_requests = {h \in MissingBlocks : RankOf(h) <= m}
       /\ Cardinality(tick.block_requests) <= BodyCap
       /\ (\/ env.header_head.total_difficulty <= env.head.total_difficulty
           \/ env.more_work_peers = 0)
             => tick.block_requests = {}

\* C14 amended: the hashes body_sync selects are the first
\* min(more-work peers, 10) x 10 missing blocks in ascending height, none
\* when header_head has no more total difficulty than head or when there is
\* no more-work peer; send_block_request is called with exactly those
\* selected hashes for which a more-work peer was picked and read without
\* blocking, so the requested hashes lie within that prefix and a skipped
\* hash may leave a gap below a requested one.
C14_RequestedWithinPrefix ==
    tick.body_calls = 1 =>
       LET selected ==
             IF env.header_head.total_difficulty > env.head.total_difficulty
             THEN {h \in MissingBlocks : RankOf(h) <= BodyCap}
             ELSE {}
       IN  /\ tick.block_requests =
                {h \in selected :
                    BlockLink(env, RankOf(h)) \in {"sent", "send_err"}}
           /\ Cardinality(tick.block_requests) <= BodyCap
           /\ (\/ env.header_head.total_difficulty <= env.head.total_difficulty
               \/ env.more_work_peers = 0)
                 => tick.block_requests = {}

\* A call with one more-work peer and more than 10 missing blocks above a
\* stored one: 10 hashes are requested, the cap.
C14_Witness ==
    /\ tick.body_calls = 1
    /\ env.more_work_peers = 1
    /\ Cardinality(MissingBlocks) > 10
    /\ env.head.height + 1 \in env.stored
    /\ Cardinality(tick.block_requests) = 10

\* C15 as stated: a txhashset request names the header horizon - 20 blocks
\* behind header_head's predecessor, whatever the horizon, and goes to the
\* most-work peer; none is sent when that peer is absent or locked.
C15_TargetHorizonMinusTwenty ==
    /\ tick.txhashset_request = "sent" =>
          /\ tick.txhashset_height =
                (env.header_head.height - 1) - (horizon - 20)
          /\ env.peer.present
    /\ (tick.ran /\ (~env.peer.present \/ env.fast_link = "locked"))
          => tick.txhashset_request = "none"

\* C15 amended: a txhashset request names the header max(horizon - 20, 0)
\* blocks behind header_head's predecessor (the predecessor itself for a
\* horizon below 20), and goes to the most-work peer; none is sent when
\* that peer is absent or locked.
C15_TargetSaturatedMargin ==
    /\ tick.txhashset_request = "sent" =>
          /\ tick.txhashset_height =
                (env.header_head.height - 1)
                   - (IF horizon > 20 THEN horizon - 20 ELSE 0)
          /\ env.peer.present
    /\ (tick.ran /\ (~env.peer.present \/ env.fast_link = "locked"))
          => tick.txhashset_request = "none"

\* A request sent with a horizon above 20: the walk takes steps.
C15_Witness ==
    /\ tick.txhashset_request = "sent"
    /\ horizon > 20
    /\ tick.txhashset_height = env.header_head.height - 1 - (horizon - 20)
    /\ tick.txhashset_height < env.header_head.height - 1

\* C20: when the driver calls fast_sync, highest_height - head.height is
\* above the horizon and header_head.height = highest_height, so the walk
\* of max(horizon - 20, 0) steps from header_head's predecessor stays at or
\* above genesis and no unwrap of the walk panics; the height requested is
\* header_head.height - 1 - max(horizon - 20, 0), at least head.height, and
\* at least head.height + 20 when the horizon is 20 or more.
C20_FastSyncWalkStaysOnChain ==
    tick.fast_calls = 1 =>
       LET steps == IF horizon > 20 THEN horizon - 20 ELSE 0
           target == env.header_head.height - 1 - steps
       IN  /\ highest_height - env.head.height > horizon
           /\ env.header_head.height = highest_height
           /\ target >= 0
           /\ ~(pc = "panicked" /\ tick.txhashset_request = "none")
           /\ target >= env.head.height
           /\ horizon >= 20 => target >= env.head.height + 20
           /\ tick.txhashset_request # "none" => tick.txhashset_height = target

\* fast_sync called with the shortest header chain that enables it, on a
\* horizon above 20 and a head above genesis: the request is for the
\* header 20 above head.
C20_Witness ==
    /\ tick.fast_calls = 1
    /\ horizon > 20
    /\ env.head.height > 0
    /\ tick.txhashset_request = "sent"
    /\ tick.txhashset_height = env.head.height + 20

\* C17 as stated: in a returned list, counting positions from 0, the step
\* from position k to position k + 1 is 2^k wherever position k + 1 is not
\* the final 0.
C17_StepIsTwoToTheK ==
    lh_pc = "returned" =>
       \A k \in 0 .. Len(lh_heights) - 3 :
          lh_heights[k + 1] - lh_heights[k + 2] = 2 ^ k

\* C17 amended: in a returned list, counting positions from 0, the step
\* from position k to position k + 1 is 2^(k+1) wherever position k + 1 is
\* not the final 0, and the step to the final 0 is at most 2^(k+1).
C17_StepIsTwoToTheKPlusOne ==
    lh_pc = "returned" =>
       /\ \A k \in 0 .. Len(lh_heights) - 3 :
             lh_heights[k + 1] - lh_heights[k + 2] = 2 ^ (k + 1)
       /\ LET last == Len(lh_heights) - 1
          IN  /\ lh_heights[last + 1] = 0
              /\ last > 0 => lh_heights[last] <= 2 ^ last

\* The list returned for 100: six steps before the final 0.
C17_Witness ==
    /\ lh_pc = "returned"
    /\ lh_height = 100
    /\ lh_heights = <<100, 98, 94, 86, 70, 38, 0>>

\* C18: for every height of the HeightBits-wide type, the largest one
\* included, the power computed for a step stays within the type, so the
\* call neither panics on overflow nor goes on with a step wrapped to 0,
\* and the list never has more than HeightBits + 1 entries.
C18_LocatorTerminates ==
    /\ lh_pc # "panicked"
    /\ Len(lh_heights) <= HeightBits + 1
    /\ (lh_pc = "loop" /\ lh_current > 0)
          => 2 ^ (Len(lh_heights) + 1) < HeightModulus

\* C19: a syncing tick whose header_head is at or above highest_height,
\* more than 5 s after the last body sync and more than 5 min after the
\* last fast sync, calls body_sync or fast_sync.
C19_NoDownloadStarvation ==
    [][(/\ TickStep /\ tick'.ran
        /\ tick'.syncing
        /\ env.header_head.height >= highest_height'
        /\ body_age > 5 /\ since_body > 5
        /\ fast_age > 5 * 60 /\ since_fast > 5 * 60)
       => tick'.body_calls + tick'.fast_calls >= 1]_vars

====
